---- MODULE Spec2Model ----
(***************************************************************************)
(* Shadowing practice application: the pronunciation-evaluation pipeline   *)
(* (App.handleEvaluate and its three sources, the result normalizer and    *)
(* the metric derivation), the wizard navigation of App, and the recording *)
(* operations of ShadowingPracticeStep.                                    *)
(*                                                                         *)
(* Encoding of JavaScript values.  Characters are short ASCII strings and  *)
(* a text is a sequence of characters.  Numbers are integers; the two      *)
(* non-numbers a computation can yield are the sentinels NaN and           *)
(* Undefined (both negative, no score ever is).  null objects are the      *)
(* record Null; a thrown TypeError is the record Thrown.                   *)
(***************************************************************************)
EXTENDS Integers, Sequences, FiniteSets, TLC

VARIABLES
    appState,          \* App: useState<AppState>
    user,              \* useAuth().user: TRUE when signed in
    evals,             \* one record per handleEvaluate invocation
    practice,          \* ShadowingPracticeStep instance: audioState and mediaRecorderRef
    recs,              \* one record per startRecording invocation (stream and recorder)
    sessions,          \* the store's shadowingSessions collection
    lastFinished,      \* log: outcome and call trace of the evaluation that finished last
    pipeIn,            \* pipeline harness: the source output under normalization
    pipeOut,           \* pipeline harness: the product of the stages after the source
    pipePhase,         \* pipeline harness: "ready" or "done"
    gen,               \* TextInputStep: generateAIText, isGenerating, generatedText
    userProfile,       \* the store's userProfiles document of the user, or Null
    favoriteDocs,      \* the store's favorites collection: documents [id, text]
    ops,               \* the calls of shadowingDataUtils: position and locals of each
    hooks              \* the mounted useFavorites instances: favorites, pending call

vars == <<appState, user, evals, practice, recs, sessions, lastFinished,
          pipeIn, pipeOut, pipePhase, gen, userProfile, favoriteDocs, ops, hooks>>

appVars == <<appState, user, evals, practice, recs, sessions, lastFinished>>
pipeVars == <<pipeIn, pipeOut, pipePhase>>
genVars == <<gen>>
storeVars == <<userProfile, favoriteDocs, ops, hooks>>

---------------------------------------------------------------------------
(* Bounds *)

MaxEvals == 2          \* handleEvaluate invocations per behaviour
MaxRecs == 2           \* startRecording invocations per behaviour
MaxTextLen == 220      \* characters of the long text of the pipeline harness
MaxGenerations == 2    \* generateAIText calls
MaxWords == 2          \* words in a service response of the pipeline harness
DrawPeriod == 5        \* period of the Math.random() stream of the pipeline harness
MaxSaves == 2          \* saveShadowingSession calls per behaviour
MaxFavorites == 3      \* favorites documents ever created per behaviour
MaxToggles == 2        \* toggleFavoriteText calls per behaviour

---------------------------------------------------------------------------
(* JavaScript values *)

NaN == 0 - 999
Undefined == 0 - 998
Null == [null |-> TRUE]
Thrown == [thrown |-> "TypeError"]

IsNumber(v) == v # NaN /\ v # Undefined

\* if (x) on a number or an absent value
Truthy(v) == IsNumber(v) /\ v # 0

\* obj.field, undefined when the object has no such property
Get(obj, f) == IF f \in DOMAIN obj THEN obj[f] ELSE Undefined

Max(a, b) == IF a >= b THEN a ELSE b
Min(a, b) == IF a <= b THEN a ELSE b

RECURSIVE SeqSum(_)
SeqSum(s) == IF s = <<>> THEN 0 ELSE Head(s) + SeqSum(Tail(s))

---------------------------------------------------------------------------
(* Characters and texts *)

Ni == "ni"
Hao == "hao"
Space == " "
CnComma == "cn_comma"
CnPeriod == "cn_period"

\* /\s/
IsSpace(c) == c = Space
\* /[\u4e00-\u9fff]/
IsHan(c) == c \in {Ni, Hao}
\* the full-width punctuation class of calculateTextComplexity and generateWordAnalysis
IsCnPunct(c) == c \in {CnComma, CnPeriod}
\* /[0-9]/
IsDigit(c) == c \in {"0", "1"}

EmptyText == <<>>

\* The practice texts a user confirms or picks from the favorites: non-blank.
Texts == { <<Ni, Hao>>, <<CnPeriod>> }

\* What the text field of TextInputStep may hold when 'start' is clicked.
InputTexts == Texts \cup { EmptyText, <<Space>> }

\* What on-device recognition may hear.
Transcripts == { <<Ni>> }

\* The reference texts and transcripts of the pipeline harness
PipeTexts ==
    Texts \cup { <<Ni>>, <<Ni, CnComma, Space, Hao, CnPeriod>>, <<Ni, Space, Hao, "1">>,
                 <<Ni, Hao, Ni, Hao>>, [i \in 1..MaxTextLen |-> CnPeriod] }
PipeTranscripts == Transcripts \cup { <<>>, <<Ni, Hao>>, <<Hao, Space, Ni>>, <<Space>> }

\* text.trim()
Trim(text) ==
    LET kept == {i \in 1..Len(text) : ~IsSpace(text[i])}
    IN  IF kept = {} THEN <<>>
        ELSE SubSeq(text, CHOOSE i \in kept : \A j \in kept : i <= j,
                          CHOOSE i \in kept : \A j \in kept : i >= j)

NotSpace(c) == ~IsSpace(c)

\* s.replace(/\s/g, '')
StripSpaces(s) == SelectSeq(s, NotSpace)

\* s.split(/\s+/).length: one more than the number of maximal whitespace runs
SplitOnSpacesCount(s) ==
    1 + Cardinality({i \in 1..Len(s) : IsSpace(s[i]) /\ (i = 1 \/ ~IsSpace(s[i - 1]))})

---------------------------------------------------------------------------
(* On-device fallback scorer *)

\* Math.round((num / den) * 100); 0 / 0 is NaN
RoundPercent(num, den) == IF den = 0 THEN NaN ELSE (200 * num + den) \div (2 * den)

\* variant: the matches are divided by the length of the reference
calculateSimpleAccuracy_ByReferenceLength(transcript, reference) ==
    LET transcriptChars == StripSpaces(transcript)
        referenceChars == StripSpaces(reference)
        matches == Cardinality({i \in 1..Min(Len(transcriptChars), Len(referenceChars)) :
                                   transcriptChars[i] = referenceChars[i]})
    IN  RoundPercent(matches, Len(referenceChars))

calculateSimpleAccuracy(transcript, reference) ==
    LET transcriptChars == StripSpaces(transcript)
        referenceChars == StripSpaces(reference)
        maxLength == Max(Len(transcriptChars), Len(referenceChars))
        matches == Cardinality({i \in 1..Min(Len(transcriptChars), Len(referenceChars)) :
                                   transcriptChars[i] = referenceChars[i]})
    IN  RoundPercent(matches, maxLength)

calculateSimpleFluency(transcript, reference) ==
    LET transcriptWords == SplitOnSpacesCount(transcript)
        referenceWords == SplitOnSpacesCount(reference)
    IN  RoundPercent(Min(transcriptWords, referenceWords), Max(transcriptWords, referenceWords))

\* variant: the plain ratio transcript length / reference length, without min and max
calculateSimpleCompleteness_PlainRatio(transcript, reference) ==
    RoundPercent(Len(StripSpaces(transcript)), Len(StripSpaces(reference)))

calculateSimpleCompleteness(transcript, reference) ==
    LET transcriptLength == Len(StripSpaces(transcript))
        referenceLength == Len(StripSpaces(reference))
    IN  RoundPercent(Min(transcriptLength, referenceLength), Max(transcriptLength, referenceLength))

\* Math.round((a + f + c) / 3)
RoundMean3(a, f, c) ==
    IF ~IsNumber(a) \/ ~IsNumber(f) \/ ~IsNumber(c) THEN NaN
    ELSE (2 * (a + f + c) + 3) \div 6

\* recognition.onresult of evaluateWithBrowserSpeechRecognition: the resolved value
BrowserRecognitionResult(transcript, referenceText) ==
    LET accuracy == calculateSimpleAccuracy(transcript, referenceText)
        fluency == calculateSimpleFluency(transcript, referenceText)
        completeness == calculateSimpleCompleteness(transcript, referenceText)
    IN  [ overallScore |-> RoundMean3(accuracy, fluency, completeness),
          accuracyScore |-> accuracy,
          fluencyScore |-> fluency,
          completenessScore |-> completeness,
          prosodyScore |-> 0,
          confidenceScore |-> 0,
          pauseCount |-> 0,
          words |-> <<>>,
          syllables |-> <<>>,
          phonemes |-> <<>> ]

---------------------------------------------------------------------------
(* Synthetic fallback generator.  Math.random() is a stream of draws, each *)
(* in thousandths (0..999); scores are computed in fixed point.            *)

Rand == {0, 500, 999}

\* the i-th Math.random() of one call
Draw(draws, i) == draws[((i - 1) % Len(draws)) + 1]

\* complexity, in 1/300
calculateTextComplexity(text) ==
    LET chineseChars == Cardinality({i \in 1..Len(text) : IsHan(text[i])})
        punctuation == Cardinality({i \in 1..Len(text) : IsCnPunct(text[i])})
        numbers == Cardinality({i \in 1..Len(text) : IsDigit(text[i])})
    IN  Min(1500, Min(600, 15 * chineseChars) + Min(300, 60 * punctuation)
                  + Min(300, 100 * numbers) + Min(300, 6 * Len(text)))

\* Math.round(base + (Math.random() - 0.5) * 10), base in 1/300, r in thousandths
PerturbedScore(base300, r) == (base300 + (3 * r - 1500) + 150) \div 300

\* calculateOverallScore of evaluationUtils: the mean of the four sub-scores, rounded
calculateOverallScore(a, f, c, p) == (2 * (a + f + c + p) + 4) \div 8

IsSeparator(c) == IsSpace(c) \/ IsCnPunct(c)

\* text.split(/[\s<punctuation>]/).filter(word => word.trim().length > 0):
\* the maximal runs of non-separator characters, in order
WordStarts(text) ==
    {i \in 1..Len(text) : ~IsSeparator(text[i]) /\ (i = 1 \/ IsSeparator(text[i - 1]))}

WordEnd(text, i) ==
    CHOOSE j \in i..Len(text) :
        /\ \A k \in i..j : ~IsSeparator(text[k])
        /\ (j = Len(text) \/ IsSeparator(text[j + 1]))

RECURSIVE WordsFrom(_, _)
WordsFrom(text, starts) ==
    IF starts = {} THEN <<>>
    ELSE LET i == CHOOSE j \in starts : \A k \in starts : j <= k
         IN  <<SubSeq(text, i, WordEnd(text, i))>> \o WordsFrom(text, starts \ {i})

SplitWords(text) == WordsFrom(text, WordStarts(text))

ErrorTypes == <<"None", "Mispronunciation", "Omission", "Insertion", "UnexpectedBreak">>

\* Math.max(40, Math.min(100, baseAccuracy + (Math.random() - 0.5) * 30)), in
\* thousandths, for the j-th word
SyntheticWordScore(j, baseAccuracy, draws) ==
    Max(40000, Min(100000, baseAccuracy * 1000 + 30 * Draw(draws, 5 + 3 * j - 2) - 15000))

\* one word of generateWordAnalysis; j is the word's index.  wordScore and the
\* syllables' accuracyScore are unrounded in the source: kept in thousandths.
SyntheticWord(word, j, baseAccuracy, draws) ==
    LET wordScore == SyntheticWordScore(j, baseAccuracy, draws)
        errorType == IF wordScore > 80000 THEN "None"
                     ELSE ErrorTypes[(5 * Draw(draws, 5 + 3 * j - 1)) \div 1000 + 1]
    IN  [ word |-> word,
          accuracyScore |-> (wordScore + 500) \div 1000,
          errorType |-> errorType,
          syllables |-> [k \in 1..Len(word) |->
                           [ syllable |-> word[k],
                             accuracyScore |-> Max(30000,
                                 wordScore + 20 * Draw(draws, 5 + 3 * j + k - 1) - 10000) ]] ]

generateWordAnalysis(text, baseAccuracy, draws) ==
    LET words == SplitWords(text)
    IN  [j \in 1..Len(words) |-> SyntheticWord(words[j], j, baseAccuracy, draws)]

IsProblematic(w) == w.accuracyScore < 70

\* words.filter(w => w.accuracyScore < 70).map(w => w.word)
ProblematicWords(words) ==
    LET kept == SelectSeq(words, IsProblematic)
    IN  [i \in 1..Len(kept) |-> kept[i].word]

generateCompleteFallbackEvaluation(text, draws) ==
    LET textLength == Len(text)
        complexity == calculateTextComplexity(text)
        baseAccuracy == Max(21000, 25500 - 5 * complexity)
        baseFluency == Max(22500, 27000 - 3 * complexity)
        baseCompleteness == Max(24000, 28500 - 150 * textLength)
        baseProsody == Max(19500, 25500 - 4 * complexity)
        accuracyScore == PerturbedScore(baseAccuracy, Draw(draws, 1))
        fluencyScore == PerturbedScore(baseFluency, Draw(draws, 2))
        completenessScore == PerturbedScore(baseCompleteness, Draw(draws, 3))
        prosodyScore == PerturbedScore(baseProsody, Draw(draws, 4))
        pauseCount == (textLength \div 20) + ((3 * Draw(draws, 5)) \div 1000)
        words == generateWordAnalysis(text, accuracyScore, draws)
    IN  [ accuracyScore |-> accuracyScore,
          fluencyScore |-> fluencyScore,
          completenessScore |-> completenessScore,
          prosodyScore |-> prosodyScore,
          overallScore |-> calculateOverallScore(accuracyScore, fluencyScore,
                                                 completenessScore, prosodyScore),
          words |-> words,
          pauseCount |-> pauseCount,
          confidenceScore |-> Max(0, 100 - pauseCount * 8),
          problematicWords |-> ProblematicWords(words) ]

---------------------------------------------------------------------------
(* Assessment service client: the value evaluatePronunciationWithAzure     *)
(* resolves with, built from the SDK's detailResult.                       *)

PauseThresholdMs == 300
TicksPerMs == 1000000

\* calculatePauseCount of the recognizeOnceAsync callback (word-level timing)
ServicePauseCount(words) ==
    Cardinality({i \in 1..(Len(words) - 1) :
        /\ Truthy(Get(words[i], "Duration"))
        /\ Truthy(Get(words[i + 1], "Offset"))
        /\ IsNumber(Get(words[i], "Offset"))
        /\ (words[i + 1].Offset - (words[i].Offset + words[i].Duration))
               > PauseThresholdMs * TicksPerMs})

AssessmentData(detailResult) ==
    [ overallScore |-> detailResult.PronunciationAssessment.PronScore,
      accuracyScore |-> detailResult.PronunciationAssessment.AccuracyScore,
      fluencyScore |-> detailResult.PronunciationAssessment.FluencyScore,
      completenessScore |-> detailResult.PronunciationAssessment.CompletenessScore,
      prosodyScore |-> 0,
      confidenceScore |-> 0,
      pauseCount |-> ServicePauseCount(detailResult.Words),
      words |-> detailResult.Words,
      syllables |-> <<>>,
      phonemes |-> <<>> ]

---------------------------------------------------------------------------
(* Result normalizer *)

\* one element of azureResult.words.map(...)
\* variant: the syllables come out in reverse order
ConvertWord_ReversedSyllables(word) ==
    [ word |-> Get(word, "Word"),
      accuracyScore |-> Get(word.PronunciationAssessment, "AccuracyScore"),
      errorType |-> Get(word.PronunciationAssessment, "ErrorType"),
      syllables |-> IF "Syllables" \in DOMAIN word
                    THEN [k \in 1..Len(word.Syllables) |->
                              word.Syllables[Len(word.Syllables) + 1 - k]]
                    ELSE <<>> ]

ConvertWord(word) ==
    [ word |-> Get(word, "Word"),
      accuracyScore |-> Get(word.PronunciationAssessment, "AccuracyScore"),
      errorType |-> Get(word.PronunciationAssessment, "ErrorType"),
      syllables |-> IF "Syllables" \in DOMAIN word THEN word.Syllables ELSE <<>> ]

\* variant: the normalizer passes the source's prosodyScore through
convertAzureResultToInternalFormat_KeepsProsody(azureResult) ==
    IF "words" \notin DOMAIN azureResult THEN Thrown
    ELSE IF \E i \in 1..Len(azureResult.words) :
                "PronunciationAssessment" \notin DOMAIN azureResult.words[i]
    THEN Thrown
    ELSE [ overallScore |-> Get(azureResult, "overallScore"),
           accuracyScore |-> Get(azureResult, "accuracyScore"),
           fluencyScore |-> Get(azureResult, "fluencyScore"),
           completenessScore |-> Get(azureResult, "completenessScore"),
           prosodyScore |-> Get(azureResult, "prosodyScore"),
           confidenceScore |-> 0,
           pauseCount |-> IF Truthy(Get(azureResult, "pauseCount"))
                          THEN azureResult.pauseCount ELSE 0,
           words |-> [i \in 1..Len(azureResult.words) |-> ConvertWord(azureResult.words[i])],
           syllables |-> <<>>,
           phonemes |-> <<>> ]

\* Reading word.PronunciationAssessment.AccuracyScore of a word that has no
\* PronunciationAssessment property, or azureResult.words.map of an absent
\* words, throws a TypeError.
convertAzureResultToInternalFormat(azureResult) ==
    IF "words" \notin DOMAIN azureResult THEN Thrown
    ELSE IF \E i \in 1..Len(azureResult.words) :
                "PronunciationAssessment" \notin DOMAIN azureResult.words[i]
    THEN Thrown
    ELSE [ overallScore |-> Get(azureResult, "overallScore"),
           accuracyScore |-> Get(azureResult, "accuracyScore"),
           fluencyScore |-> Get(azureResult, "fluencyScore"),
           completenessScore |-> Get(azureResult, "completenessScore"),
           prosodyScore |-> 0,
           confidenceScore |-> 0,
           pauseCount |-> IF Truthy(Get(azureResult, "pauseCount"))
                          THEN azureResult.pauseCount ELSE 0,
           words |-> [i \in 1..Len(azureResult.words) |-> ConvertWord(azureResult.words[i])],
           syllables |-> <<>>,
           phonemes |-> <<>> ]

---------------------------------------------------------------------------
(* Metric derivation *)

\* x >= n and x < n of JavaScript: both false on NaN and undefined
Ge(x, n) == IsNumber(x) /\ x >= n
Lt(x, n) == IsNumber(x) /\ x < n
Gt(x, n) == IsNumber(x) /\ x > n

StrengthLabels == <<"accurate_pronunciation", "good_fluency",
                    "complete_sentences", "natural_intonation">>
ImprovementLabels == <<"basic_pronunciation_accuracy", "speed_and_rhythm",
                       "sentence_completeness", "tone_and_intonation">>

\* variant: a higher bar for a strength
IsStrength_From85(s) == Ge(s, 85)

IsStrength(s) == Ge(s, 80)
IsWeakness(s) == ~Ge(s, 80) /\ Lt(s, 60)

analyzeStrengthsAndWeaknesses(accuracyScore, fluencyScore, completenessScore, prosodyScore) ==
    LET scores == <<accuracyScore, fluencyScore, completenessScore, prosodyScore>>
        strong == SelectSeq(<<1, 2, 3, 4>>, LAMBDA d : IsStrength(scores[d]))
        weak == SelectSeq(<<1, 2, 3, 4>>, LAMBDA d : IsWeakness(scores[d]))
    IN  [ strongPoints |-> [i \in 1..Len(strong) |-> StrengthLabels[strong[i]]],
          improvementAreas |-> [i \in 1..Len(weak) |-> ImprovementLabels[weak[i]]] ]

\* variant: the bands are open at their lower bound
generateScoreAdvice_OpenBands(overallScore) ==
    IF Gt(overallScore, 90) THEN "advice_near_native"
    ELSE IF Gt(overallScore, 80) THEN "advice_very_good"
    ELSE IF Gt(overallScore, 70) THEN "advice_good_base"
    ELSE IF Gt(overallScore, 60) THEN "advice_more_practice"
    ELSE "advice_start_from_basics"

generateScoreAdvice(overallScore) ==
    IF Ge(overallScore, 90) THEN "advice_near_native"
    ELSE IF Ge(overallScore, 80) THEN "advice_very_good"
    ELSE IF Ge(overallScore, 70) THEN "advice_good_base"
    ELSE IF Ge(overallScore, 60) THEN "advice_more_practice"
    ELSE "advice_start_from_basics"

\* variant: the threshold is inclusive
IsBelow70_Inclusive(w) == Lt(w.accuracyScore, 71)

IsBelow70(w) == Lt(w.accuracyScore, 70)

\* convertedResult.words.filter(word => word.accuracyScore < 70).map(word => word.word)
FilterProblematic(words) ==
    LET kept == SelectSeq(words, IsBelow70)
    IN  [i \in 1..Len(kept) |-> kept[i].word]

\* if (azureResult.strongPoints && azureResult.improvementAreas && azureResult.scoreAdvice):
\* arrays are truthy, a string is truthy when it is not empty
HasOwnAnalysis(azureResult) ==
    /\ "strongPoints" \in DOMAIN azureResult
    /\ "improvementAreas" \in DOMAIN azureResult
    /\ "scoreAdvice" \in DOMAIN azureResult
    /\ azureResult.scoreAdvice # ""

\* Math.max(0, 100 - convertedResult.pauseCount * 10)
ConfidencePenalty == 10
\* variant: the penalty of the synthetic generator
ConfidenceScore_SyntheticPenalty(pauseCount) == Max(0, 100 - pauseCount * 8)

ConfidenceScore(pauseCount) == Max(0, 100 - pauseCount * ConfidencePenalty)

\* handleEvaluate from the normalizer call to the evaluationResult object:
\* Thrown when the normalizer throws, else the EvaluationResult
BuildEvaluationResult(azureResult) ==
    LET convertedResult == convertAzureResultToInternalFormat(azureResult)
        analysis == analyzeStrengthsAndWeaknesses(convertedResult.accuracyScore,
                        convertedResult.fluencyScore, convertedResult.completenessScore,
                        convertedResult.prosodyScore)
        own == HasOwnAnalysis(azureResult)
    IN  IF convertedResult = Thrown THEN Thrown
        ELSE [ accuracyScore |-> convertedResult.accuracyScore,
               fluencyScore |-> convertedResult.fluencyScore,
               completenessScore |-> convertedResult.completenessScore,
               prosodyScore |-> convertedResult.prosodyScore,
               overallScore |-> convertedResult.overallScore,
               words |-> convertedResult.words,
               pauseCount |-> convertedResult.pauseCount,
               confidenceScore |-> ConfidenceScore(convertedResult.pauseCount),
               strongPoints |-> IF own THEN azureResult.strongPoints
                                ELSE analysis.strongPoints,
               improvementAreas |-> IF own THEN azureResult.improvementAreas
                                    ELSE analysis.improvementAreas,
               problematicWords |-> IF own
                                    THEN (IF "problematicWords" \in DOMAIN azureResult
                                          THEN azureResult.problematicWords ELSE <<>>)
                                    ELSE FilterProblematic(convertedResult.words),
               scoreAdvice |-> IF own THEN azureResult.scoreAdvice
                               ELSE generateScoreAdvice(convertedResult.overallScore) ]

\* The object handleEvaluate builds from the synthetic generator's result
SyntheticAzureResult(fallbackResult) ==
    [ overallScore |-> fallbackResult.overallScore,
      accuracyScore |-> fallbackResult.accuracyScore,
      fluencyScore |-> fallbackResult.fluencyScore,
      completenessScore |-> fallbackResult.completenessScore,
      prosodyScore |-> fallbackResult.prosodyScore,
      words |-> fallbackResult.words,
      pauseCount |-> fallbackResult.pauseCount,
      confidenceScore |-> fallbackResult.confidenceScore ]

---------------------------------------------------------------------------
(* DetailedAnalysis: the pause functions, over a WordAnalysis list.         *)
(* Durations are kept in service units (TicksPerMs of them in one          *)
(* millisecond by the code's conversion), so that no quotient is rounded.  *)

\* currentWord.syllables && currentWord.syllables.length > 0 && nextWord...
BothHaveSyllables(words, i) ==
    /\ "syllables" \in DOMAIN words[i] /\ Len(words[i].syllables) > 0
    /\ "syllables" \in DOMAIN words[i + 1] /\ Len(words[i + 1].syllables) > 0

\* nextStartTime - currentEndTime; NaN when a timing field is absent
SyllableGap(words, i) ==
    LET last == words[i].syllables[Len(words[i].syllables)]
        first == words[i + 1].syllables[1]
    IN  IF IsNumber(Get(last, "Offset")) /\ IsNumber(Get(last, "Duration"))
           /\ IsNumber(Get(first, "Offset"))
        THEN first.Offset - (last.Offset + last.Duration)
        ELSE NaN

\* the boundaries whose pauseDuration > 300
LongPauses(words) ==
    {i \in 1..(Len(words) - 1) :
        BothHaveSyllables(words, i)
        /\ Gt(SyllableGap(words, i), PauseThresholdMs * TicksPerMs)}

calculatePauseCount(words) == Cardinality(LongPauses(words))

RECURSIVE SetSum(_, _)
SetSum(words, S) ==
    IF S = {} THEN 0
    ELSE LET i == CHOOSE j \in S : TRUE
         IN  SyllableGap(words, i) + SetSum(words, S \ {i})

\* variant: the mean without the guard for an empty pause list
calculateAveragePauseDuration_Unguarded(words) ==
    IF LongPauses(words) = {} THEN NaN
    ELSE SetSum(words, LongPauses(words)) \div Cardinality(LongPauses(words))

\* pauses.length > 0 ? sum / pauses.length : 0, to the whole service unit
calculateAveragePauseDuration(words) ==
    IF LongPauses(words) = {} THEN 0
    ELSE SetSum(words, LongPauses(words)) \div Cardinality(LongPauses(words))

\* the running maximum of the loop, from 0: if (pauseDuration > longestPause)
RECURSIVE LongestPauseUpTo(_, _)
LongestPauseUpTo(words, n) ==
    IF n <= 0 THEN 0
    ELSE LET longestPause == LongestPauseUpTo(words, n - 1)
         IN  IF BothHaveSyllables(words, n) /\ Gt(SyllableGap(words, n), longestPause)
             THEN SyllableGap(words, n)
             ELSE longestPause

calculateLongestPause(words) == LongestPauseUpTo(words, Len(words) - 1)

\* the three figures of the pause panel
PausePanel(words) ==
    [ pauseCount |-> calculatePauseCount(words),
      averagePauseDuration |-> calculateAveragePauseDuration(words),
      longestPause |-> calculateLongestPause(words) ]

---------------------------------------------------------------------------
(* Inputs of the application: what the environment may deliver *)

SvcSyllable(c, off) ==
    [ Syllable |-> c, Offset |-> off, Duration |-> 2000000,
      PronunciationAssessment |-> [AccuracyScore |-> 75] ]

\* a word of detailResult.Words
SvcWord(c, acc, err, off) ==
    [ Word |-> <<c>>, Offset |-> off, Duration |-> 2000000,
      PronunciationAssessment |-> [AccuracyScore |-> acc, ErrorType |-> err],
      Syllables |-> <<SvcSyllable(c, off)>> ]

SvcDetail(pron, acc, flu, com, words) ==
    [ PronunciationAssessment |->
          [PronScore |-> pron, AccuracyScore |-> acc,
           FluencyScore |-> flu, CompletenessScore |-> com],
      Words |-> words ]

\* The service responses of the application model
AppServiceWords ==
    << SvcWord(Ni, 69, "Mispronunciation", 10000000), SvcWord(Hao, 70, "None", 400000000) >>

AppServiceDetails ==
    { SvcDetail(60, 50, 100, 50, AppServiceWords), SvcDetail(88, 90, 80, 100, AppServiceWords) }

\* The Math.random() streams of the application model
AppDraws == { <<0, 500, 999>> }

BlobSizes == {2500}

---------------------------------------------------------------------------
(* Application state *)

Steps == {"text-input", "shadowing", "evaluation", "dashboard"}

InitialAppState ==
    [ currentStep |-> "text-input",
      selectedText |-> EmptyText,
      recordedAudio |-> Null,
      evaluationResult |-> Null,
      isEvaluating |-> FALSE ]

\* ShadowingPracticeStep: useState<AudioState> and mediaRecorderRef at mount
\* (mediaRecorderRef 0 is null, else the startRecording invocation whose recorder it holds)
FreshPractice ==
    [ isRecording |-> FALSE, hasRecording |-> FALSE, audioBlob |-> Null, mediaRecorderRef |-> 0 ]

IdleEval == [ pc |-> "idle", audioBlob |-> Null, text |-> EmptyText, user |-> FALSE,
              calls |-> <<>>, result |-> Null ]

\* attached: the invocation's callbacks still reach a mounted component
IdleRec == [ pc |-> "none", attached |-> FALSE ]

\* no call of the data layer has been made and no useFavorites instance is mounted
StoreIdle ==
    /\ userProfile = Null
    /\ favoriteDocs = {}
    /\ ops = <<>>
    /\ hooks = <<>>

AppInit ==
    /\ appState = InitialAppState
    /\ user \in BOOLEAN
    /\ evals = [e \in 1..MaxEvals |-> IdleEval]
    /\ practice = FreshPractice
    /\ recs = [r \in 1..MaxRecs |-> IdleRec]
    /\ sessions = <<>>
    /\ lastFinished = [outcome |-> "none", calls |-> <<>>]

PracticeMounted == appState.currentStep = "shadowing"

\* The stream of a startRecording invocation has live tracks
StreamLive(r) == recs[r].pc \in {"recorder_error", "recording", "stopping"}

\* Rendering a step other than 'shadowing' unmounts ShadowingPracticeStep: its state
\* and refs are gone, and callbacks of its pending operations no longer reach a
\* mounted component.  Entering 'shadowing' from another step mounts a fresh one.
PracticeAfter(nextStep) ==
    IF nextStep = "shadowing" /\ PracticeMounted THEN practice ELSE FreshPractice

RecsAfter(nextStep) ==
    IF nextStep = "shadowing" /\ PracticeMounted THEN recs
    ELSE [r \in 1..MaxRecs |-> [recs[r] EXCEPT !.attached = FALSE]]

\* setAppState(next) with the re-render it causes
Render(next) ==
    /\ appState' = next
    /\ practice' = PracticeAfter(next.currentStep)
    /\ recs' = RecsAfter(next.currentStep)

---------------------------------------------------------------------------
(* App: navigation handlers *)

handleTextConfirm(text) ==
    /\ appState.currentStep = "text-input"
    /\ Render([appState EXCEPT !.currentStep = "shadowing", !.selectedText = text])
    /\ UNCHANGED <<user, evals, sessions, lastFinished, pipeVars, genVars, storeVars>>

\* variant: the start button passes the text on without looking at it
handleStartShadowing_Unguarded(text) == handleTextConfirm(text)

\* TextInputStep.handleStartShadowing: a text that is blank after trim() is refused
\* with an alert, any other is handed to App.handleTextConfirm
handleStartShadowing(text) ==
    /\ Trim(text) # EmptyText
    /\ handleTextConfirm(text)

handleGoBack ==
    /\ PracticeMounted
    /\ Render([appState EXCEPT !.currentStep = "text-input", !.recordedAudio = Null])
    /\ UNCHANGED <<user, evals, sessions, lastFinished, pipeVars, genVars, storeVars>>

handleGoToDashboard ==
    /\ appState.currentStep # "dashboard"
    /\ Render([appState EXCEPT !.currentStep = "dashboard"])
    /\ UNCHANGED <<user, evals, sessions, lastFinished, pipeVars, genVars, storeVars>>

handleGoToPractice ==
    /\ appState.currentStep = "dashboard"
    /\ Render([appState EXCEPT !.currentStep = "text-input"])
    /\ UNCHANGED <<user, evals, sessions, lastFinished, pipeVars, genVars, storeVars>>

\* the home button of the header, and 'new text' of the evaluation step
resetToTextInput ==
    /\ appState # InitialAppState
    /\ Render(InitialAppState)
    /\ UNCHANGED <<user, evals, sessions, lastFinished, pipeVars, genVars, storeVars>>

\* onRetryPractice of the evaluation step (result view and failure view)
onRetryPractice ==
    /\ appState.currentStep = "evaluation"
    /\ ~appState.isEvaluating
    /\ Render([appState EXCEPT !.currentStep = "shadowing"])
    /\ UNCHANGED <<user, evals, sessions, lastFinished, pipeVars, genVars, storeVars>>

\* FavoritesModal, offered to a signed-in user on every step
handleSelectFromFavorites(text) ==
    /\ user
    /\ appState.currentStep # "shadowing" \/ appState.selectedText # text
    /\ Render([appState EXCEPT !.currentStep = "shadowing", !.selectedText = text])
    /\ UNCHANGED <<user, evals, sessions, lastFinished, pipeVars, genVars, storeVars>>

---------------------------------------------------------------------------
(* ShadowingPracticeStep: recording *)

StartedRecs == {r \in 1..MaxRecs : recs[r].pc # "none"}

\* toggleRecording with isRecording false: startRecording up to its await
startRecording ==
    /\ PracticeMounted
    /\ ~practice.isRecording
    /\ Cardinality(StartedRecs) < MaxRecs
    /\ recs' = [recs EXCEPT ![Cardinality(StartedRecs) + 1] =
                                [pc |-> "gum", attached |-> TRUE]]
    /\ UNCHANGED <<appState, user, evals, practice, sessions, lastFinished, pipeVars, genVars, storeVars>>

\* getUserMedia resolves and the MediaRecorder is created and started
GetUserMediaResolves(r) ==
    /\ recs[r].pc = "gum"
    /\ recs' = [recs EXCEPT ![r].pc = "recording"]
    /\ practice' = IF recs[r].attached
                   THEN [practice EXCEPT !.mediaRecorderRef = r, !.isRecording = TRUE]
                   ELSE practice
    /\ UNCHANGED <<appState, user, evals, sessions, lastFinished, pipeVars, genVars, storeVars>>

\* getUserMedia resolves and new MediaRecorder(stream, options) or start() throws
\* (the catch of startRecording alerts; the stream is not touched)
RecorderThrows(r) ==
    /\ recs[r].pc = "gum"
    /\ recs' = [recs EXCEPT ![r] = [pc |-> "recorder_error", attached |-> FALSE]]
    /\ UNCHANGED <<appState, user, evals, practice, sessions, lastFinished, pipeVars, genVars, storeVars>>

\* getUserMedia rejects (the catch of startRecording alerts)
GetUserMediaRejects(r) ==
    /\ recs[r].pc = "gum"
    /\ recs' = [recs EXCEPT ![r] = [pc |-> "denied", attached |-> FALSE]]
    /\ UNCHANGED <<appState, user, evals, practice, sessions, lastFinished, pipeVars, genVars, storeVars>>

\* toggleRecording with isRecording true
stopRecording ==
    /\ PracticeMounted
    /\ practice.isRecording
    /\ practice.mediaRecorderRef # 0
    /\ recs[practice.mediaRecorderRef].pc = "recording"
    /\ recs' = [recs EXCEPT ![practice.mediaRecorderRef].pc = "stopping"]
    /\ practice' = [practice EXCEPT !.isRecording = FALSE]
    /\ UNCHANGED <<appState, user, evals, sessions, lastFinished, pipeVars, genVars, storeVars>>

\* mediaRecorder.onstop: the blob is stored and the stream's tracks are stopped
RecorderOnStop(r, size) ==
    /\ recs[r].pc = "stopping"
    /\ recs' = [recs EXCEPT ![r] = [pc |-> "stopped", attached |-> FALSE]]
    /\ practice' = IF recs[r].attached
                   THEN [practice EXCEPT !.hasRecording = TRUE,
                                         !.audioBlob = [size |-> size]]
                   ELSE practice
    /\ UNCHANGED <<appState, user, evals, sessions, lastFinished, pipeVars, genVars, storeVars>>

---------------------------------------------------------------------------
(* App.handleEvaluate *)

StartedEvals == {e \in 1..MaxEvals : evals[e].pc # "idle"}

\* An evaluation that has started and has written neither its result nor its failure
InFlight(e) == evals[e].pc \in {"azure", "browser", "unsettled", "save"}

\* ShadowingPracticeStep.handleEvaluate -> App.handleEvaluate up to the await of
\* evaluatePronunciationWithAzure; the closure keeps selectedText and user
handleEvaluate ==
    /\ PracticeMounted
    /\ practice.audioBlob # Null
    /\ Cardinality(StartedEvals) < MaxEvals
    /\ evals' = [evals EXCEPT ![Cardinality(StartedEvals) + 1] =
                    [ pc |-> "azure", audioBlob |-> practice.audioBlob,
                      text |-> appState.selectedText, user |-> user,
                      calls |-> <<"azure">>, result |-> Null ]]
    /\ Render([appState EXCEPT !.currentStep = "evaluation", !.isEvaluating = TRUE])
    /\ UNCHANGED <<user, sessions, lastFinished, pipeVars, genVars, storeVars>>

\* handleEvaluate has returned
FinishedEval == [ pc |-> "finished", audioBlob |-> Null, text |-> EmptyText, user |-> FALSE,
                  calls |-> <<>>, result |-> Null ]

\* handleEvaluate from the normalizer call on, for the source output azureResult:
\* the outer catch when a stage throws, else the save (signed in) or the state update
AfterSource(e, azureResult, calls) ==
    LET evaluationResult == BuildEvaluationResult(azureResult)
    IN  IF evaluationResult = Thrown
        THEN /\ evals' = [evals EXCEPT ![e] = FinishedEval]
             /\ lastFinished' = [outcome |-> "failed", calls |-> calls]
             /\ Render([appState EXCEPT !.isEvaluating = FALSE])
        ELSE IF evals[e].user
        THEN /\ evals' = [evals EXCEPT ![e].pc = "save", ![e].calls = calls,
                                       ![e].result = evaluationResult]
             /\ UNCHANGED <<appState, practice, recs, lastFinished>>
        ELSE /\ evals' = [evals EXCEPT ![e] = FinishedEval]
             /\ lastFinished' = [outcome |-> "done", calls |-> calls]
             /\ Render([appState EXCEPT !.recordedAudio = evals[e].audioBlob,
                                        !.evaluationResult = evaluationResult,
                                        !.isEvaluating = FALSE])

\* evaluatePronunciationWithAzure resolves
AzureResolves(e, detailResult) ==
    /\ evals[e].pc = "azure"
    /\ AfterSource(e, AssessmentData(detailResult), evals[e].calls \o <<"normalize">>)
    /\ UNCHANGED <<user, sessions, pipeVars, genVars, storeVars>>

\* variant: a rejected service call goes straight to the synthetic generator
AzureRejects_SkipsRecognition(e) ==
    /\ evals[e].pc = "azure"
    /\ \E draws \in AppDraws :
          AfterSource(e, SyntheticAzureResult(generateCompleteFallbackEvaluation(evals[e].text, draws)),
                      evals[e].calls \o <<"synthetic", "normalize">>)
    /\ UNCHANGED <<user, sessions, pipeVars, genVars, storeVars>>

\* evaluatePronunciationWithAzure rejects: on-device recognition is started
AzureRejects(e) ==
    /\ evals[e].pc = "azure"
    /\ evals' = [evals EXCEPT ![e].pc = "browser", ![e].calls = @ \o <<"browser">>]
    /\ UNCHANGED <<appState, user, practice, recs, sessions, lastFinished, pipeVars, genVars, storeVars>>

\* evaluateWithBrowserSpeechRecognition resolves (recognition.onresult)
BrowserResolves(e, transcript) ==
    /\ evals[e].pc = "browser"
    /\ AfterSource(e, BrowserRecognitionResult(transcript, evals[e].text),
                   evals[e].calls \o <<"normalize">>)
    /\ UNCHANGED <<user, sessions, pipeVars, genVars, storeVars>>

\* evaluateWithBrowserSpeechRecognition rejects: the synthetic generator runs
BrowserRejects(e, draws) ==
    /\ evals[e].pc = "browser"
    /\ AfterSource(e, SyntheticAzureResult(generateCompleteFallbackEvaluation(evals[e].text, draws)),
                   evals[e].calls \o <<"synthetic", "normalize">>)
    /\ UNCHANGED <<user, sessions, pipeVars, genVars, storeVars>>

\* evaluateWithBrowserSpeechRecognition: the recorded audio fails to play (the promise
\* of audio.play() rejects and onended never fires), or recognition ends with neither
\* a result nor an error (recognition.onend is empty).  No handler calls resolve or
\* reject: the promise handleEvaluate awaits stays pending.
BrowserNeverSettles(e) ==
    /\ evals[e].pc = "browser"
    /\ evals' = [evals EXCEPT ![e].pc = "unsettled"]
    /\ UNCHANGED <<appState, user, practice, recs, sessions, lastFinished,
                   pipeVars, genVars, storeVars>>

\* sessionData of handleEvaluate
SessionData(e) ==
    LET evaluationResult == evals[e].result
    IN  [ text |-> evals[e].text,
          studyTime |-> evals[e].audioBlob.size \div 1000,
          overallScore |-> evaluationResult.overallScore,
          accuracyScore |-> evaluationResult.accuracyScore,
          fluencyScore |-> evaluationResult.fluencyScore,
          completenessScore |-> evaluationResult.completenessScore,
          prosodyScore |-> evaluationResult.prosodyScore,
          pauseCount |-> evaluationResult.pauseCount,
          confidenceScore |-> evaluationResult.confidenceScore ]

\* saveShadowingSession settles (stored is whether addDoc succeeded; it throws
\* before addDoc when auth.currentUser is null), then the final setAppState
SaveSettles(e, stored) ==
    /\ evals[e].pc = "save"
    /\ sessions' = IF stored /\ user THEN Append(sessions, SessionData(e)) ELSE sessions
    /\ evals' = [evals EXCEPT ![e] = FinishedEval]
    /\ lastFinished' = [outcome |-> "done", calls |-> evals[e].calls]
    /\ Render([appState EXCEPT !.recordedAudio = evals[e].audioBlob,
                               !.evaluationResult = evals[e].result,
                               !.isEvaluating = FALSE])
    /\ UNCHANGED <<user, pipeVars, genVars, storeVars>>

---------------------------------------------------------------------------
(* TextInputStep: generateAIText.  The button is disabled while            *)
(* isGenerating and for a blank prompt, so one call runs at a time.        *)

\* modelConfigs: the type of each model, in list order
ModelTypes == <<"gemini", "gemini", "gemini", "gemini", "openai", "openai", "openai">>

\* state of a mounted TextInputStep; the keys are the build's environment
GenIdle(geminiApiKey, openaiApiKey) ==
    [ pc |-> "idle", model |-> 0, calls |-> 0,
      geminiApiKey |-> geminiApiKey, openaiApiKey |-> openaiApiKey,
      isGenerating |-> FALSE, generatedText |-> "",
      log |-> <<>> ]

\* const apiKey = modelConfig.type === 'gemini' ? geminiApiKey : openaiApiKey
HasKey(i) ==
    IF ModelTypes[i] = "gemini" THEN gen.geminiApiKey ELSE gen.openaiApiKey

\* the first model at or after i that has a key, Len(ModelTypes) + 1 when there is none
NextWithKey(i) ==
    IF \E j \in i..Len(ModelTypes) : HasKey(j)
    THEN CHOOSE j \in i..Len(ModelTypes) : HasKey(j) /\ \A k \in i..(j - 1) : ~HasKey(k)
    ELSE Len(ModelTypes) + 1

\* the log entries of the models from i up to, not including, j: skipped for no key
SkippedLog(i, j) == [k \in 1..(j - i) |-> [model |-> i + k - 1, event |-> "skipped"]]

\* the for loop from model i on, up to its next await: the models without a key are
\* skipped; the fetch of the first model with a key is awaited, or, the list
\* exhausted, the outer catch sets a replacement text and finally clears isGenerating
GenLoopFrom(i, log, calls) ==
    LET j == NextWithKey(i)
    IN  IF j <= Len(ModelTypes)
        THEN gen' = [gen EXCEPT !.pc = "fetch", !.model = j, !.isGenerating = TRUE,
                                !.calls = calls,
                                !.log = log \o SkippedLog(i, j)
                                            \o <<[model |-> j, event |-> "requested"]>>]
        ELSE gen' = [gen EXCEPT !.pc = "idle", !.model = 0, !.isGenerating = FALSE,
                                !.calls = calls,
                                !.generatedText = "replacement",
                                !.log = log \o SkippedLog(i, j)]

\* the button's onClick, with a non-blank prompt
generateAIText ==
    /\ gen.pc = "idle"
    /\ ~gen.isGenerating
    /\ gen.calls < MaxGenerations
    /\ IF ~gen.geminiApiKey /\ ~gen.openaiApiKey
       THEN gen' = [gen EXCEPT !.calls = @ + 1, !.generatedText = "replacement", !.log = <<>>]
       ELSE GenLoopFrom(1, <<>>, gen.calls + 1)
    /\ UNCHANGED <<appVars, pipeVars, storeVars>>

\* the response is ok and holds a non-empty text: setGeneratedText, return
FetchReturnsText ==
    /\ gen.pc = "fetch"
    /\ gen' = [gen EXCEPT !.pc = "idle", !.model = 0, !.isGenerating = FALSE,
                          !.generatedText = "generated",
                          !.log = Append(@, [model |-> gen.model, event |-> "succeeded"])]
    /\ UNCHANGED <<appVars, pipeVars, storeVars>>

\* a limit, authorization or configuration error: continue with the next model
FetchFailsContinue ==
    /\ gen.pc = "fetch"
    /\ GenLoopFrom(gen.model + 1, Append(gen.log, [model |-> gen.model, event |-> "failed"]),
                   gen.calls)
    /\ UNCHANGED <<appVars, pipeVars, storeVars>>

\* any other error (another status, a rejected fetch, a response of another shape or
\* with an empty text): break, then the outer catch and finally
FetchFailsBreak ==
    /\ gen.pc = "fetch"
    /\ gen' = [gen EXCEPT !.pc = "idle", !.model = 0, !.isGenerating = FALSE,
                          !.generatedText = "replacement",
                          !.log = Append(@, [model |-> gen.model, event |-> "failed"])]
    /\ UNCHANGED <<appVars, pipeVars, storeVars>>

GenInit ==
    /\ AppInit
    /\ StoreIdle
    /\ user = FALSE
    /\ pipeIn = Null
    /\ pipeOut = Null
    /\ pipePhase = "off"
    /\ gen \in { GenIdle(g, o) : g \in BOOLEAN, o \in BOOLEAN }

GenNext == generateAIText \/ FetchReturnsText \/ FetchFailsContinue \/ FetchFailsBreak

SpecAIText == GenInit /\ [][GenNext]_vars

---------------------------------------------------------------------------
(* The application *)

Init ==
    /\ AppInit
    /\ StoreIdle
    /\ pipeIn = Null
    /\ pipeOut = Null
    /\ pipePhase = "off"
    /\ gen = GenIdle(FALSE, FALSE)

Next ==
    \/ \E text \in InputTexts : handleStartShadowing(text)
    \/ handleGoBack
    \/ handleGoToDashboard
    \/ handleGoToPractice
    \/ resetToTextInput
    \/ onRetryPractice
    \/ \E text \in Texts : handleSelectFromFavorites(text)
    \/ startRecording
    \/ \E r \in 1..MaxRecs : GetUserMediaResolves(r)
    \/ \E r \in 1..MaxRecs : RecorderThrows(r)
    \/ \E r \in 1..MaxRecs : GetUserMediaRejects(r)
    \/ stopRecording
    \/ \E r \in 1..MaxRecs, size \in BlobSizes : RecorderOnStop(r, size)
    \/ handleEvaluate
    \/ \E e \in 1..MaxEvals, detailResult \in AppServiceDetails : AzureResolves(e, detailResult)
    \/ \E e \in 1..MaxEvals : AzureRejects(e)
    \/ \E e \in 1..MaxEvals, transcript \in Transcripts : BrowserResolves(e, transcript)
    \/ \E e \in 1..MaxEvals, draws \in AppDraws : BrowserRejects(e, draws)
    \/ \E e \in 1..MaxEvals : BrowserNeverSettles(e)
    \/ \E e \in 1..MaxEvals, stored \in BOOLEAN : SaveSettles(e, stored)

Spec == Init /\ [][Next]_vars

\* a callback of evaluation e: a settlement of the awaited call, or one of the events
\* of on-device recognition that settle nothing
Callback(e) ==
    \/ \E detailResult \in AppServiceDetails : AzureResolves(e, detailResult)
    \/ AzureRejects(e)
    \/ \E transcript \in Transcripts : BrowserResolves(e, transcript)
    \/ \E draws \in AppDraws : BrowserRejects(e, draws)
    \/ BrowserNeverSettles(e)
    \/ \E stored \in BOOLEAN : SaveSettles(e, stored)

\* the application with the browser and the SDK delivering every pending callback
FairSpec == Spec /\ \A e \in 1..MaxEvals : WF_vars(Callback(e))

---------------------------------------------------------------------------
(* Pipeline harness: one evaluation source applied to a drawn input, then   *)
(* the stages of handleEvaluate that follow the source.                    *)

PipeSyllables(c) ==
    { << [Syllable |-> c, PronunciationAssessment |-> [AccuracyScore |-> 40]],
         [Syllable |-> "r", PronunciationAssessment |-> [AccuracyScore |-> 95]] >>,
      << [Syllable |-> "r", PronunciationAssessment |-> [AccuracyScore |-> 95]],
         [Syllable |-> c, PronunciationAssessment |-> [AccuracyScore |-> 40]] >> }

PipeErrorType(acc) == IF acc < 70 THEN "Mispronunciation" ELSE "None"

\* words of detailResult.Words, with and without Syllables
PipeServiceWords ==
    { [ Word |-> <<c>>, Offset |-> off, Duration |-> 2000000,
        PronunciationAssessment |-> [AccuracyScore |-> acc, ErrorType |-> PipeErrorType(acc)] ] :
          c \in {Ni, Hao}, acc \in {69, 70, 100}, off \in {0, 400000000} }
    \cup
    UNION { { [ Word |-> <<c>>, Offset |-> 0, Duration |-> 2000000,
                PronunciationAssessment |->
                    [AccuracyScore |-> acc, ErrorType |-> PipeErrorType(acc)],
                Syllables |-> syl ] :
                  acc \in {69, 70}, syl \in PipeSyllables(c) } : c \in {Ni, Hao} }

PipeWordLists == UNION { [1..n -> PipeServiceWords] : n \in 0..MaxWords }

SyllableTicks == 2 * TicksPerMs

\* a word of two timed syllables, its own timing spanning them
TimedWord(c, off) ==
    [ Word |-> <<c>>, Offset |-> off, Duration |-> 2 * SyllableTicks,
      PronunciationAssessment |-> [AccuracyScore |-> 80, ErrorType |-> "None"],
      Syllables |-> << [Syllable |-> c, Offset |-> off, Duration |-> SyllableTicks],
                       [Syllable |-> "r", Offset |-> off + SyllableTicks,
                        Duration |-> SyllableTicks] >> ]

\* word starts: at 0, and after the word at 0 by a gap of exactly the threshold,
\* of one unit more, and of twice the threshold
PipeTimedWords ==
    { TimedWord(Ni, off) :
        off \in { 0,
                  2 * SyllableTicks + PauseThresholdMs * TicksPerMs,
                  2 * SyllableTicks + PauseThresholdMs * TicksPerMs + 1,
                  2 * SyllableTicks + 2 * PauseThresholdMs * TicksPerMs } }

PipeTimedWordLists == UNION { [1..n -> PipeTimedWords] : n \in 1..MaxWords }

PipeServiceInputs ==
    { [ source |-> "service", detailResult |-> SvcDetail(pron, acc, 60, 100, words) ] :
        pron \in {59, 90}, acc \in {0, 80}, words \in PipeWordLists }
    \cup
    { [ source |-> "service", detailResult |-> SvcDetail(90, 80, 60, 100, words) ] :
        words \in PipeTimedWordLists }

PipeBrowserInputs ==
    { [ source |-> "browser", transcript |-> tr, text |-> text ] :
        tr \in PipeTranscripts, text \in PipeTexts }

PipeSyntheticInputs ==
    { [ source |-> "synthetic", text |-> text, draws |-> draws ] :
        text \in PipeTexts, draws \in [1..DrawPeriod -> Rand] }

\* sub-scores around the thresholds of analyzeStrengthsAndWeaknesses
PipeScoreValues == {0, 59, 60, 79, 80, 100}

PipeScoreInputs ==
    { [ source |-> "scores", accuracyScore |-> a, fluencyScore |-> f,
        completenessScore |-> c, prosodyScore |-> p ] :
        a \in PipeScoreValues, f \in PipeScoreValues,
        c \in PipeScoreValues, p \in PipeScoreValues }

PipeOverallInputs == { [ source |-> "overall", overallScore |-> o ] : o \in 0..100 }

\* the source output, the normalizer's product and the EvaluationResult
PipeProduct(azureResult) ==
    [ azureResult |-> azureResult,
      converted |-> convertAzureResultToInternalFormat(azureResult),
      result |-> BuildEvaluationResult(azureResult),
      pauses |-> Null ]

\* the WordAnalysis list DetailedAnalysis is given: the words of the result, or the
\* list generateWordAnalysis built when the normalizer rejected it
PipeAnalysedWords ==
    IF pipeOut.result # Thrown THEN pipeOut.result.words ELSE pipeOut.azureResult.words

PipeService ==
    /\ pipePhase = "ready"
    /\ pipeIn.source = "service"
    /\ pipeOut' = PipeProduct(AssessmentData(pipeIn.detailResult))
    /\ pipePhase' = "done"
    /\ UNCHANGED <<pipeIn, appVars, genVars, storeVars>>

PipeBrowser ==
    /\ pipePhase = "ready"
    /\ pipeIn.source = "browser"
    /\ pipeOut' = PipeProduct(BrowserRecognitionResult(pipeIn.transcript, pipeIn.text))
    /\ pipePhase' = "done"
    /\ UNCHANGED <<pipeIn, appVars, genVars, storeVars>>

PipeSynthetic ==
    /\ pipePhase = "ready"
    /\ pipeIn.source = "synthetic"
    /\ pipeOut' = PipeProduct(SyntheticAzureResult(
                      generateCompleteFallbackEvaluation(pipeIn.text, pipeIn.draws)))
    /\ pipePhase' = "done"
    /\ UNCHANGED <<pipeIn, appVars, genVars, storeVars>>

\* DetailedAnalysis renders the pause panel
PipeAnalyse ==
    /\ pipePhase = "done"
    /\ pipeOut' = [pipeOut EXCEPT !.pauses = PausePanel(PipeAnalysedWords)]
    /\ pipePhase' = "analysed"
    /\ UNCHANGED <<pipeIn, appVars, genVars, storeVars>>

\* analyzeStrengthsAndWeaknesses applied to four sub-scores
PipeAnalyseScores ==
    /\ pipePhase = "ready"
    /\ pipeIn.source = "scores"
    /\ pipeOut' = analyzeStrengthsAndWeaknesses(pipeIn.accuracyScore, pipeIn.fluencyScore,
                                                pipeIn.completenessScore, pipeIn.prosodyScore)
    /\ pipePhase' = "derived"
    /\ UNCHANGED <<pipeIn, appVars, genVars, storeVars>>

\* generateScoreAdvice applied to an overall score
PipeAdvise ==
    /\ pipePhase = "ready"
    /\ pipeIn.source = "overall"
    /\ pipeOut' = [scoreAdvice |-> generateScoreAdvice(pipeIn.overallScore)]
    /\ pipePhase' = "derived"
    /\ UNCHANGED <<pipeIn, appVars, genVars, storeVars>>

PipeInit ==
    /\ AppInit
    /\ StoreIdle
    /\ user = FALSE
    /\ pipeIn \in PipeServiceInputs \cup PipeBrowserInputs \cup PipeSyntheticInputs
                 \cup PipeScoreInputs \cup PipeOverallInputs
    /\ pipeOut = Null
    /\ pipePhase = "ready"
    /\ gen = GenIdle(FALSE, FALSE)

PipeNext ==
    \/ PipeService
    \/ PipeBrowser
    \/ PipeSynthetic
    \/ PipeAnalyse
    \/ PipeAnalyseScores
    \/ PipeAdvise

SpecPipeline == PipeInit /\ [][PipeNext]_vars

---------------------------------------------------------------------------
(* shadowingDataUtils: the aggregate profile kept beside the session log.  *)
(* Each call runs up to its next await in one step; the store settles the  *)
(* awaited operation (ok or rejected) in a later step.                     *)

\* defaultProfile of getUserProfile (averageScore is kept in tenths)
DefaultProfile ==
    [ totalPractices |-> 0, averageScore |-> 0, totalStudyTime |-> 0,
      totalSessions |-> 0, bestScore |-> 0, favoriteTexts |-> <<>> ]

IdleOp == [ pc |-> "idle", kind |-> "none", arg |-> Null, currentProfile |-> Null,
            returned |-> Null ]

\* the sessionData handleEvaluate passes, reduced to the fields the profile uses
SaveInputs ==
    { [ practiceCount |-> 1, studyTime |-> t, overallScore |-> s ] :
        t \in {3, 5}, s \in {60, 90} }

\* the call ends: it returns v (a caught error returns null, or false for the toggle)
Returns(c, v) == ops' = [ops EXCEPT ![c].pc = "done", ![c].returned = v]

\* saveShadowingSession up to its await of addDoc; it throws, and returns null,
\* when auth.currentUser is null
saveShadowingSession(c, sessionData) ==
    /\ ops[c].pc = "idle"
    /\ IF user
       THEN ops' = [ops EXCEPT ![c].pc = "addDoc", ![c].kind = "save",
                               ![c].arg = sessionData]
       ELSE ops' = [ops EXCEPT ![c].pc = "done", ![c].kind = "save",
                               ![c].arg = sessionData]
    /\ UNCHANGED <<appVars, pipeVars, genVars, userProfile, favoriteDocs, hooks>>

\* addDoc(collection(db, 'shadowingSessions'), session) settles; then
\* updateUserProfile runs up to the getDoc of getUserProfile
AddDocSettles(c, ok) ==
    /\ ops[c].pc = "addDoc"
    /\ IF ok
       THEN /\ sessions' = Append(sessions, ops[c].arg)
            /\ ops' = [ops EXCEPT ![c].pc = "getDoc"]
       ELSE /\ Returns(c, Null)
            /\ UNCHANGED sessions
    /\ UNCHANGED <<appState, user, evals, practice, recs, lastFinished,
                   pipeVars, genVars, userProfile, favoriteDocs, hooks>>

\* getUserProfile: getDoc(profileRef) settles.  An existing profile is returned;
\* for a missing one the default profile is about to be written; a rejection makes
\* getUserProfile return null, and the caller then writes nothing.
GetDocSettles(c, ok) ==
    /\ ops[c].pc = "getDoc"
    /\ IF ok /\ userProfile # Null
       THEN ops' = [ops EXCEPT ![c].pc = "updateDoc", ![c].currentProfile = userProfile]
       ELSE IF ok
       THEN ops' = [ops EXCEPT ![c].pc = "setDoc"]
       ELSE Returns(c, IF ops[c].kind = "toggle" THEN FALSE ELSE Null)
    /\ UNCHANGED <<appVars, pipeVars, genVars, userProfile, favoriteDocs, hooks>>

\* getUserProfile: setDoc(profileRef, defaultProfile) settles
SetDocSettles(c, ok) ==
    /\ ops[c].pc = "setDoc"
    /\ IF ok
       THEN /\ userProfile' = DefaultProfile
            /\ ops' = [ops EXCEPT ![c].pc = "updateDoc",
                                  ![c].currentProfile = DefaultProfile]
       ELSE /\ Returns(c, IF ops[c].kind = "toggle" THEN FALSE ELSE Null)
            /\ UNCHANGED userProfile
    /\ UNCHANGED <<appVars, pipeVars, genVars, favoriteDocs, hooks>>

\* Math.round((newTotalScore / (totalSessions + 1)) * 10) / 10, in tenths
NewAverageScore(currentProfile, sessionData) ==
    LET n == currentProfile.totalSessions
        newTotalScore10 == currentProfile.averageScore * n + 10 * sessionData.overallScore
    IN  (2 * newTotalScore10 + (n + 1)) \div (2 * (n + 1))

\* updatedProfile of updateUserProfile, merged into the stored document by updateDoc
UpdatedProfile(stored, currentProfile, sessionData) ==
    [ stored EXCEPT
        !.totalPractices = currentProfile.totalPractices + sessionData.practiceCount,
        !.totalStudyTime = currentProfile.totalStudyTime + sessionData.studyTime,
        !.totalSessions = currentProfile.totalSessions + 1,
        !.bestScore = Max(currentProfile.bestScore, sessionData.overallScore),
        !.averageScore = NewAverageScore(currentProfile, sessionData) ]

\* updateUserProfile: updateDoc(profileRef, updatedProfile) settles; a rejection is
\* caught and logged.  saveShadowingSession returns docRef.id either way.
ProfileUpdateSettles(c, ok) ==
    /\ ops[c].pc = "updateDoc"
    /\ ops[c].kind = "save"
    /\ userProfile' = IF ok THEN UpdatedProfile(userProfile, ops[c].currentProfile, ops[c].arg)
                      ELSE userProfile
    /\ Returns(c, [id |-> Len(sessions)])
    /\ UNCHANGED <<appVars, pipeVars, genVars, favoriteDocs, hooks>>

ProfileInit ==
    /\ AppInit
    /\ pipeIn = Null
    /\ pipeOut = Null
    /\ pipePhase = "off"
    /\ gen = GenIdle(FALSE, FALSE)
    /\ userProfile \in {Null, DefaultProfile}
    /\ favoriteDocs = {}
    /\ ops = [c \in 1..MaxSaves |-> IdleOp]
    /\ hooks = <<>>

ProfileNext ==
    \/ \E c \in 1..MaxSaves, sessionData \in SaveInputs : saveShadowingSession(c, sessionData)
    \/ \E c \in 1..MaxSaves, ok \in BOOLEAN : AddDocSettles(c, ok)
    \/ \E c \in 1..MaxSaves, ok \in BOOLEAN : GetDocSettles(c, ok)
    \/ \E c \in 1..MaxSaves, ok \in BOOLEAN : SetDocSettles(c, ok)
    \/ \E c \in 1..MaxSaves, ok \in BOOLEAN : ProfileUpdateSettles(c, ok)

SpecProfile == ProfileInit /\ [][ProfileNext]_vars

---------------------------------------------------------------------------
(* useFavorites: two instances are mounted with the App, its own and the   *)
(* one of FavoritesModal (the modal calls the hook before it returns null  *)
(* for a closed modal).  Each keeps its own favorites list.  A document of *)
(* the favorites collection is favoriteDocs[id]; deleteDoc clears stored.  *)

Instances == {"App", "FavoritesModal"}

\* the texts a user may have selected when the favorite button is clicked
FavoriteTexts == Texts \cup { <<Ni, Hao, Space>> }

StoredIds == {id \in 1..Len(favoriteDocs) : favoriteDocs[id].stored}

\* the list loadFavorites builds from the query snapshot, newest first
RECURSIVE NewestFirst(_)
NewestFirst(ids) ==
    IF ids = {} THEN <<>>
    ELSE LET id == CHOOSE i \in ids : \A j \in ids : i >= j
         IN  <<[id |-> id, text |-> favoriteDocs[id].text]>> \o NewestFirst(ids \ {id})

\* the instance settles its pending call, with the list it holds from then on
Settled(h, favorites, loaded, returned) ==
    hooks' = [hooks EXCEPT ![h] = [ favorites |-> favorites, call |-> Null,
                                     loaded |-> loaded, returned |-> returned ]]

\* loadFavorites, started by the effect on [user]: getDocs settles
GetDocsSettles(h, ok) ==
    /\ hooks[h].call # Null
    /\ hooks[h].call.kind = "load"
    /\ IF ok THEN Settled(h, NewestFirst(StoredIds), TRUE, hooks[h].returned)
       ELSE Settled(h, hooks[h].favorites, FALSE, hooks[h].returned)
    /\ UNCHANGED <<appVars, pipeVars, genVars, userProfile, favoriteDocs, ops>>

\* addFavorite up to its await of addDoc (App.handleFavoriteScript with the selected
\* text; the button is offered whether or not the text is a favorite already)
addFavorite(h, text) ==
    /\ user
    /\ h = "App"
    /\ hooks[h].call = Null
    /\ Len(favoriteDocs) < MaxFavorites
    /\ hooks' = [hooks EXCEPT ![h].call = [kind |-> "add", text |-> text]]
    /\ UNCHANGED <<appVars, pipeVars, genVars, userProfile, favoriteDocs, ops>>

\* addDoc settles: the new favorite is put in front of this instance's list
AddFavoriteSettles(h, ok) ==
    /\ hooks[h].call # Null
    /\ hooks[h].call.kind = "add"
    /\ IF ok
       THEN /\ favoriteDocs' = Append(favoriteDocs,
                                      [text |-> hooks[h].call.text, stored |-> TRUE])
            /\ Settled(h, <<[id |-> Len(favoriteDocs) + 1, text |-> hooks[h].call.text]>>
                              \o hooks[h].favorites,
                       hooks[h].loaded, [success |-> TRUE])
       ELSE /\ Settled(h, hooks[h].favorites, hooks[h].loaded, [success |-> FALSE])
            /\ UNCHANGED favoriteDocs
    /\ UNCHANGED <<appVars, pipeVars, genVars, userProfile, ops>>

\* removeFavorite up to its await of deleteDoc (FavoritesModal.handleDelete for an
\* entry of the modal's list)
removeFavorite(h, favoriteId) ==
    /\ user
    /\ h = "FavoritesModal"
    /\ hooks[h].call = Null
    /\ \E i \in 1..Len(hooks[h].favorites) : hooks[h].favorites[i].id = favoriteId
    /\ hooks' = [hooks EXCEPT ![h].call = [kind |-> "remove", id |-> favoriteId]]
    /\ UNCHANGED <<appVars, pipeVars, genVars, userProfile, favoriteDocs, ops>>

\* deleteDoc settles: prev.filter(fav => fav.id !== favoriteId) on this instance
RemoveFavoriteSettles(h, ok) ==
    /\ hooks[h].call # Null
    /\ hooks[h].call.kind = "remove"
    /\ IF ok
       THEN /\ favoriteDocs' = [favoriteDocs EXCEPT ![hooks[h].call.id].stored = FALSE]
            /\ Settled(h, SelectSeq(hooks[h].favorites,
                                    LAMBDA fav : fav.id # hooks[h].call.id),
                       hooks[h].loaded, [success |-> TRUE])
       ELSE /\ Settled(h, hooks[h].favorites, hooks[h].loaded, [success |-> FALSE])
            /\ UNCHANGED favoriteDocs
    /\ UNCHANGED <<appVars, pipeVars, genVars, userProfile, ops>>

\* favorites.some(fav => fav.text.trim() === trimmedText)
isFavorite(h, text) ==
    \E i \in 1..Len(hooks[h].favorites) : Trim(hooks[h].favorites[i].text) = Trim(text)

\* a signed-in user's App has mounted: both instances have started loadFavorites
FavoritesInit ==
    /\ AppInit
    /\ user = TRUE
    /\ pipeIn = Null
    /\ pipeOut = Null
    /\ pipePhase = "off"
    /\ gen = GenIdle(FALSE, FALSE)
    /\ userProfile = Null
    /\ favoriteDocs \in { <<>> } \cup { <<[text |-> text, stored |-> TRUE]>> : text \in Texts }
    /\ ops = <<>>
    /\ hooks = [h \in Instances |-> [ favorites |-> <<>>, call |-> [kind |-> "load"],
                                       loaded |-> FALSE, returned |-> Null ]]

FavoritesNext ==
    \/ \E h \in Instances, ok \in BOOLEAN : GetDocsSettles(h, ok)
    \/ \E h \in Instances, text \in FavoriteTexts : addFavorite(h, text)
    \/ \E h \in Instances, ok \in BOOLEAN : AddFavoriteSettles(h, ok)
    \/ \E h \in Instances, favoriteId \in 1..MaxFavorites : removeFavorite(h, favoriteId)
    \/ \E h \in Instances, ok \in BOOLEAN : RemoveFavoriteSettles(h, ok)

SpecFavorites == FavoritesInit /\ [][FavoritesNext]_vars

---------------------------------------------------------------------------
(* shadowingDataUtils.toggleFavoriteText, one call after another *)

\* favoriteTexts.indexOf(text), 1-based; 0 when absent
IndexOf(favoriteTexts, text) ==
    IF \E i \in 1..Len(favoriteTexts) : favoriteTexts[i] = text
    THEN CHOOSE i \in 1..Len(favoriteTexts) :
             /\ favoriteTexts[i] = text
             /\ \A j \in 1..(i - 1) : favoriteTexts[j] # text
    ELSE 0

\* variant: the text is pushed whether or not it is in the list
ToggledTexts_AlwaysPush(favoriteTexts, text) == Append(favoriteTexts, text)

\* the copy of favoriteTexts after splice(textIndex, 1) or push(text)
ToggledTexts(favoriteTexts, text) ==
    LET textIndex == IndexOf(favoriteTexts, text)
    IN  IF textIndex > 0
        THEN SubSeq(favoriteTexts, 1, textIndex - 1)
                 \o SubSeq(favoriteTexts, textIndex + 1, Len(favoriteTexts))
        ELSE Append(favoriteTexts, text)

\* toggleFavoriteText up to the getDoc of getUserProfile; it throws, and returns
\* false, when auth.currentUser is null
toggleFavoriteText(c, text) ==
    /\ ops[c].pc = "idle"
    /\ IF user
       THEN ops' = [ops EXCEPT ![c].pc = "getDoc", ![c].kind = "toggle", ![c].arg = text]
       ELSE ops' = [ops EXCEPT ![c].pc = "done", ![c].kind = "toggle", ![c].arg = text,
                               ![c].returned = FALSE]
    /\ UNCHANGED <<appVars, pipeVars, genVars, userProfile, favoriteDocs, hooks>>

\* updateDoc(profileRef, {favoriteTexts, updatedAt}) settles: textIndex === -1 is
\* returned, or false from the catch
ToggleUpdateSettles(c, ok) ==
    /\ ops[c].pc = "updateDoc"
    /\ ops[c].kind = "toggle"
    /\ IF ok
       THEN /\ userProfile' = [userProfile EXCEPT !.favoriteTexts =
                                  ToggledTexts(ops[c].currentProfile.favoriteTexts, ops[c].arg)]
            /\ Returns(c, IndexOf(ops[c].currentProfile.favoriteTexts, ops[c].arg) = 0)
       ELSE /\ Returns(c, FALSE)
            /\ UNCHANGED userProfile
    /\ UNCHANGED <<appVars, pipeVars, genVars, favoriteDocs, hooks>>

\* the stored profiles of the harness: none, or one with a duplicate-free list
ToggleProfiles ==
    {Null} \cup { [DefaultProfile EXCEPT !.favoriteTexts = favoriteTexts] :
                    favoriteTexts \in { <<>>, << <<Ni, Hao>> >>, << <<CnPeriod>> >>,
                                        << <<Ni, Hao>>, <<CnPeriod>> >>,
                                        << <<CnPeriod>>, <<Ni, Hao>> >> } }

\* call c is the next one: the calls before it have returned
NextCall(c) ==
    /\ \A d \in 1..(c - 1) : ops[d].pc = "done"
    /\ \A d \in c..MaxToggles : ops[d].pc = "idle"

ToggleInit ==
    /\ AppInit
    /\ pipeIn = Null
    /\ pipeOut = Null
    /\ pipePhase = "off"
    /\ gen = GenIdle(FALSE, FALSE)
    /\ userProfile \in ToggleProfiles
    /\ favoriteDocs = {}
    /\ ops = [c \in 1..MaxToggles |-> IdleOp]
    /\ hooks = <<>>

ToggleNext ==
    \/ \E c \in 1..MaxToggles, text \in Texts : NextCall(c) /\ toggleFavoriteText(c, text)
    \/ \E c \in 1..MaxToggles, ok \in BOOLEAN : GetDocSettles(c, ok)
    \/ \E c \in 1..MaxToggles, ok \in BOOLEAN : SetDocSettles(c, ok)
    \/ \E c \in 1..MaxToggles, ok \in BOOLEAN : ToggleUpdateSettles(c, ok)

SpecToggle == ToggleInit /\ [][ToggleNext]_vars

---------------------------------------------------------------------------
(* Claims *)

FailureState ==
    /\ appState.currentStep = "evaluation"
    /\ ~appState.isEvaluating
    /\ appState.evaluationResult = Null

\* C1: whatever combination of the assessment service and on-device recognition
\* fails, no evaluation ends in the outer catch of handleEvaluate (the alert) and
\* the 'evaluation failed' state is never shown.
C1_EvaluationNeverFails ==
    /\ lastFinished.outcome # "failed"
    /\ ~FailureState

CompleteTraces ==
    { <<"azure", "normalize">>,
      <<"azure", "browser", "normalize">>,
      <<"azure", "browser", "synthetic", "normalize">> }

\* C2: the sources are invoked in the order assessment service, on-device
\* recognition, synthetic generator, each only after the ones before it have failed
\* and none after one has succeeded, and the normalizer runs once, last: an
\* evaluation awaiting the service has called only the service, one awaiting
\* on-device recognition has called the service and then recognition, and every
\* evaluation past its source has one of the three complete call sequences.
C2_SourcesInFixedOrder ==
    /\ \A e \in 1..MaxEvals :
          /\ evals[e].pc = "azure" => evals[e].calls = <<"azure">>
          /\ evals[e].pc = "browser" => evals[e].calls = <<"azure", "browser">>
          /\ evals[e].pc = "save" => evals[e].calls \in CompleteTraces
    /\ lastFinished.outcome # "none" => lastFinished.calls \in CompleteTraces

\* C2 witness: an evaluation has finished with a result after all three sources ran.
C2_Witness ==
    /\ lastFinished.outcome = "done"
    /\ lastFinished.calls = <<"azure", "browser", "synthetic", "normalize">>

\* C3: the normalizer returns a result for the output of each of the three sources,
\* and for the synthetic source every output word has the word and the accuracyScore
\* of the input word at the same index.
C3_NormalizerAcceptsAllShapes ==
    pipePhase = "done" =>
        /\ pipeOut.converted # Thrown
        /\ pipeIn.source = "synthetic" =>
              /\ Len(pipeOut.converted.words) = Len(pipeOut.azureResult.words)
              /\ \A i \in 1..Len(pipeOut.azureResult.words) :
                    /\ pipeOut.converted.words[i].word = pipeOut.azureResult.words[i].word
                    /\ pipeOut.converted.words[i].accuracyScore
                           = pipeOut.azureResult.words[i].accuracyScore

\* C4: at most one evaluation is in flight at any time.
C4_AtMostOneEvaluationInFlight ==
    Cardinality({e \in 1..MaxEvals : InFlight(e)}) <= 1

\* C5: a result does not outlive its evaluation cycle.  selectedText is empty from a
\* reset (or the start) until the next text is confirmed or picked, and no evaluation
\* can be requested in between, so in such a state evaluationResult and
\* recordedAudio are null: no evaluation requested before the reset writes them.
C5_NoResultAfterReset ==
    appState.selectedText = EmptyText =>
        /\ appState.evaluationResult = Null
        /\ appState.recordedAudio = Null

\* C6: a microphone stream has live tracks only while the practice step that
\* acquired it is mounted and its recorder is recording (or has been stopped and the
\* stop event is still to be delivered): it is released after stopRecording, after a
\* recording error and after the practice step is torn down.
C6_StreamReleasedOnEveryExit ==
    \A r \in 1..MaxRecs :
        StreamLive(r) =>
            /\ PracticeMounted
            /\ recs[r].attached
            /\ recs[r].pc \in {"recording", "stopping"}

\* the score records the state holds: the result shown, the results of evaluations
\* awaiting their save, the session records
ScoreRecords ==
    { r \in {appState.evaluationResult} \cup {evals[e].result : e \in 1..MaxEvals} : r # Null }
    \cup { [ accuracyScore |-> sessions[i].accuracyScore,
             fluencyScore |-> sessions[i].fluencyScore,
             completenessScore |-> sessions[i].completenessScore,
             prosodyScore |-> sessions[i].prosodyScore,
             overallScore |-> sessions[i].overallScore ] : i \in 1..Len(sessions) }

\* C7: any two produced results with the same four sub-scores have the same
\* overallScore.
C7_OverallIsFunctionOfSubScores ==
    \A r1 \in ScoreRecords, r2 \in ScoreRecords :
        ( /\ r1.accuracyScore = r2.accuracyScore
          /\ r1.fluencyScore = r2.fluencyScore
          /\ r1.completenessScore = r2.completenessScore
          /\ r1.prosodyScore = r2.prosodyScore )
        => r1.overallScore = r2.overallScore

InScoreRange(v) == v \in 0..100

\* C8: the four sub-scores of every produced EvaluationResult are within [0,100];
\* so are the three ratios of the on-device scorer, for every transcript (the empty
\* one included) against a non-blank reference, and the four perturbed scores of the
\* synthetic generator.
C8_SubScoresInRange ==
    pipePhase = "done" =>
        /\ pipeOut.result # Thrown =>
              /\ InScoreRange(pipeOut.result.accuracyScore)
              /\ InScoreRange(pipeOut.result.fluencyScore)
              /\ InScoreRange(pipeOut.result.completenessScore)
              /\ InScoreRange(pipeOut.result.prosodyScore)
        /\ pipeIn.source \in {"browser", "synthetic"} =>
              /\ InScoreRange(pipeOut.azureResult.accuracyScore)
              /\ InScoreRange(pipeOut.azureResult.fluencyScore)
              /\ InScoreRange(pipeOut.azureResult.completenessScore)
              /\ InScoreRange(pipeOut.azureResult.prosodyScore)

\* C8 witness: the on-device scorer has scored an empty transcript, and the result
\* was produced.
C8_Witness ==
    /\ pipePhase = "done"
    /\ pipeIn.source = "browser"
    /\ pipeIn.transcript = <<>>
    /\ pipeOut.result # Thrown
    /\ pipeOut.result.accuracyScore = 0

\* the word strings of the entries with accuracyScore < 70, in order
RECURSIVE LowScoreProjection(_)
LowScoreProjection(words) ==
    IF words = <<>> THEN <<>>
    ELSE (IF Head(words).accuracyScore < 70 THEN <<Head(words).word>> ELSE <<>>)
         \o LowScoreProjection(Tail(words))

\* C9: problematicWords of every produced EvaluationResult is exactly the sequence
\* of the words of the entries of its words list with accuracyScore < 70, in order.
C9_ProblematicWordsConsistent ==
    (pipePhase = "done" /\ pipeOut.result # Thrown) =>
        pipeOut.result.problematicWords = LowScoreProjection(pipeOut.result.words)

\* C9 witness: a result whose words list has entries on both sides of the threshold.
C9_Witness ==
    /\ pipePhase = "done"
    /\ pipeOut.result # Thrown
    /\ Len(pipeOut.result.words) = 2
    /\ pipeOut.result.words[1].accuracyScore = 70
    /\ pipeOut.result.words[2].accuracyScore = 69
    /\ Len(pipeOut.result.problematicWords) = 1

\* C10: for a service response the normalized words list has the length of the
\* input list, and its i-th word is built from the i-th input word, with that
\* word's syllables in their input order.
C10_WordsMapOneToOne ==
    (pipePhase = "done" /\ pipeIn.source = "service") =>
        /\ pipeOut.converted # Thrown
        /\ Len(pipeOut.converted.words) = Len(pipeIn.detailResult.Words)
        /\ \A i \in 1..Len(pipeIn.detailResult.Words) :
              LET in == pipeIn.detailResult.Words[i]
                  out == pipeOut.converted.words[i]
              IN  /\ out.word = in.Word
                  /\ out.accuracyScore = in.PronunciationAssessment.AccuracyScore
                  /\ out.errorType = in.PronunciationAssessment.ErrorType
                  /\ Len(out.syllables) =
                         (IF "Syllables" \in DOMAIN in THEN Len(in.Syllables) ELSE 0)
                  /\ \A k \in 1..Len(out.syllables) : out.syllables[k] = in.Syllables[k]

\* C10 witness: a response of two different words, the first with two syllables,
\* has been normalized.
C10_Witness ==
    /\ pipePhase = "done"
    /\ pipeIn.source = "service"
    /\ Len(pipeIn.detailResult.Words) = 2
    /\ pipeIn.detailResult.Words[1].Word # pipeIn.detailResult.Words[2].Word
    /\ "Syllables" \in DOMAIN pipeIn.detailResult.Words[1]
    /\ Len(pipeOut.converted.words[1].syllables) = 2

\* C11: missing required data makes the normalizer stage fail, and that failure
\* triggers the next fallback source instead of ending the evaluation in the failure
\* state: no evaluation ends in failure with the normalizer as the last stage it ran.
C11_NormalizerFailureFallsBack ==
    (lastFinished.outcome = "failed" /\ lastFinished.calls # <<>>) =>
        lastFinished.calls[Len(lastFinished.calls)] # "normalize"

\* a raw service word carries syllable timing
HasSyllableTiming(w) ==
    /\ "Syllables" \in DOMAIN w
    /\ Len(w.Syllables) > 0
    /\ "Offset" \in DOMAIN w.Syllables[1]
    /\ "Offset" \in DOMAIN w.Syllables[Len(w.Syllables)]
    /\ "Duration" \in DOMAIN w.Syllables[Len(w.Syllables)]

\* the boundaries of a service word list whose gap, next word's first-syllable start
\* minus current word's last-syllable end, is strictly more than 300 ms
BoundariesOverThreshold(words) ==
    {i \in 1..(Len(words) - 1) :
        /\ HasSyllableTiming(words[i])
        /\ HasSyllableTiming(words[i + 1])
        /\ words[i + 1].Syllables[1].Offset
             - (words[i].Syllables[Len(words[i].Syllables)].Offset
                + words[i].Syllables[Len(words[i].Syllables)].Duration)
           > 300 * TicksPerMs}

CarriesSyllableTiming(w) ==
    /\ "syllables" \in DOMAIN w
    /\ Len(w.syllables) > 0
    /\ "Offset" \in DOMAIN w.syllables[1]
    /\ "Offset" \in DOMAIN w.syllables[Len(w.syllables)]
    /\ "Duration" \in DOMAIN w.syllables[Len(w.syllables)]

NoTimedPair(words) ==
    \A i \in 1..(Len(words) - 1) :
        ~(CarriesSyllableTiming(words[i]) /\ CarriesSyllableTiming(words[i + 1]))

\* C13: for a word list in which no two adjacent words both carry syllable timing
\* (empty, a single word, on-device results, service words without timed syllables,
\* synthetic words), the pause panel's pauseCount, averagePauseDuration and
\* longestPause are all the number 0.
C13_NoTimingAllZero ==
    (pipePhase = "analysed" /\ NoTimedPair(PipeAnalysedWords)) =>
        /\ pipeOut.pauses.pauseCount = 0
        /\ pipeOut.pauses.averagePauseDuration = 0
        /\ pipeOut.pauses.longestPause = 0

\* C13 witness: the panel was computed for two synthetic words, whose syllables have
\* no Offset or Duration.
C13_Witness ==
    /\ pipePhase = "analysed"
    /\ pipeIn.source = "synthetic"
    /\ Len(PipeAnalysedWords) = 2
    /\ Len(PipeAnalysedWords[1].syllables) > 0
    /\ NoTimedPair(PipeAnalysedWords)
    /\ pipeOut.pauses.longestPause = 0

\* C14: in every produced EvaluationResult confidenceScore is
\* max(0, 100 - 10 * pauseCount) for the result's own pauseCount, whichever source
\* produced it, and so lies within [0,100]; the synthetic generator's own value does
\* not reach the result.
C14_ConfidenceFromPauseCount ==
    (pipePhase = "done" /\ pipeOut.result # Thrown) =>
        /\ pipeOut.result.pauseCount \in Nat
        /\ pipeOut.result.confidenceScore =
               (IF 10 * pipeOut.result.pauseCount >= 100 THEN 0
                ELSE 100 - 10 * pipeOut.result.pauseCount)
        /\ pipeOut.result.confidenceScore \in 0..100

\* C14 witness: a synthetic result with pauses was produced, and the generator's own
\* confidence value differs from the result's.
C14_Witness ==
    /\ pipePhase = "done"
    /\ pipeIn.source = "synthetic"
    /\ pipeOut.result # Thrown
    /\ pipeOut.result.pauseCount > 0
    /\ pipeOut.azureResult.confidenceScore # pipeOut.result.confidenceScore

\* the position of a label in a label list, 0 when it is not a member
LabelIndex(labels, l) ==
    IF \E d \in 1..Len(labels) : labels[d] = l
    THEN CHOOSE d \in 1..Len(labels) : labels[d] = l
    ELSE 0

InFixedOrder(out, labels) ==
    /\ Len(out) <= 4
    /\ \A i \in 1..Len(out) : LabelIndex(labels, out[i]) # 0
    /\ \A i \in 1..Len(out), j \in 1..Len(out) :
          i < j => LabelIndex(labels, out[i]) < LabelIndex(labels, out[j])

\* C15: analyzeStrengthsAndWeaknesses decides each sub-score on its own: the
\* dimension's strength label is emitted iff the score is >= 80, its improvement label
\* iff the score is < 60, nothing in between; no dimension is in both lists, each list
\* has at most four labels, in the order accuracy, fluency, completeness, prosody.
C15_StrengthsAndWeaknesses ==
    (pipePhase = "derived" /\ pipeIn.source = "scores") =>
        LET scores == << pipeIn.accuracyScore, pipeIn.fluencyScore,
                         pipeIn.completenessScore, pipeIn.prosodyScore >>
            strong == {pipeOut.strongPoints[i] : i \in 1..Len(pipeOut.strongPoints)}
            weak == {pipeOut.improvementAreas[i] : i \in 1..Len(pipeOut.improvementAreas)}
        IN  /\ \A d \in 1..4 :
                  /\ (StrengthLabels[d] \in strong) <=> (scores[d] >= 80)
                  /\ (ImprovementLabels[d] \in weak) <=> (scores[d] < 60)
                  /\ ~(StrengthLabels[d] \in strong /\ ImprovementLabels[d] \in weak)
            /\ InFixedOrder(pipeOut.strongPoints, StrengthLabels)
            /\ InFixedOrder(pipeOut.improvementAreas, ImprovementLabels)

\* C15 witness: scores on both sides of both thresholds were analysed: a strength at
\* exactly 80, nothing at 79 and at 60, an improvement area at 59.
C15_Witness ==
    /\ pipePhase = "derived"
    /\ pipeIn.source = "scores"
    /\ pipeIn.accuracyScore = 80
    /\ pipeIn.fluencyScore = 79
    /\ pipeIn.completenessScore = 60
    /\ pipeIn.prosodyScore = 59
    /\ pipeOut.strongPoints = <<StrengthLabels[1]>>
    /\ pipeOut.improvementAreas = <<ImprovementLabels[4]>>

AdviceBand(o) ==
    IF o >= 90 THEN 5 ELSE IF o >= 80 THEN 4 ELSE IF o >= 70 THEN 3 ELSE IF o >= 60 THEN 2 ELSE 1

\* C16: generateScoreAdvice returns one of five fixed strings for every score in
\* 0..100, and two scores get the same string exactly when they lie in the same of the
\* bands [90,100], [80,90), [70,80), [60,70), [0,60).
C16_AdviceBands ==
    (pipePhase = "derived" /\ pipeIn.source = "overall") =>
        /\ pipeOut.scoreAdvice \in
               { "advice_near_native", "advice_very_good", "advice_good_base",
                 "advice_more_practice", "advice_start_from_basics" }
        /\ \A o \in 0..100 :
              (generateScoreAdvice(o) = pipeOut.scoreAdvice)
                  <=> (AdviceBand(o) = AdviceBand(pipeIn.overallScore))

\* C16 witness: the advice for the band bound 90 was computed, and is the advice for 95.
C16_Witness ==
    /\ pipePhase = "derived"
    /\ pipeIn.source = "overall"
    /\ pipeIn.overallScore = 90
    /\ pipeOut.scoreAdvice = "advice_near_native"
    /\ generateScoreAdvice(95) = pipeOut.scoreAdvice

\* round(100 * m / max(len(t), len(r))), m the number of positions below both
\* lengths at which t and r agree; round is to the nearest integer, halves up
PositionwiseAccuracy(t, r) ==
    LET m == Cardinality({i \in 1..Len(t) : i <= Len(r) /\ t[i] = r[i]})
        longer == IF Len(t) > Len(r) THEN Len(t) ELSE Len(r)
    IN  CHOOSE n \in 0..100 :
            /\ 2 * longer * n - longer <= 200 * m
            /\ 200 * m < 2 * longer * n + longer

IsNotWhitespace(c) == c # Space

WithoutWhitespace(s) == SelectSeq(s, IsNotWhitespace)

\* C17 as stated: the on-device accuracy is the position-wise match ratio of the
\* transcript and the reference text as they are.
C17_AccuracyOfRawStrings ==
    (pipePhase = "done" /\ pipeIn.source = "browser") =>
        pipeOut.azureResult.accuracyScore = PositionwiseAccuracy(pipeIn.transcript, pipeIn.text)

\* C17 amended: the on-device accuracy is the position-wise match ratio of the
\* transcript and the reference text after all whitespace is removed from both; it is
\* 100 for identical strings and 25 for a one-character transcript equal to the first
\* of four reference characters.
C17_AccuracyOfStrippedStrings ==
    (pipePhase = "done" /\ pipeIn.source = "browser") =>
        /\ pipeOut.azureResult.accuracyScore =
               PositionwiseAccuracy(WithoutWhitespace(pipeIn.transcript),
                                    WithoutWhitespace(pipeIn.text))
        /\ pipeIn.transcript = pipeIn.text => pipeOut.azureResult.accuracyScore = 100

\* C17 witness: a one-character transcript equal to the first of four reference
\* characters was scored 25.
C17_Witness ==
    /\ pipePhase = "done"
    /\ pipeIn.source = "browser"
    /\ pipeIn.transcript = <<Ni>>
    /\ pipeIn.text = <<Ni, Hao, Ni, Hao>>
    /\ pipeOut.azureResult.accuracyScore = 25

\* the characters of a text that are neither whitespace nor punctuation
FilteredCharCount(text) ==
    Cardinality({i \in 1..Len(text) : text[i] # Space /\ text[i] \notin {CnComma, CnPeriod}})

\* C18: when both other sources have failed, the synthetic result becomes the
\* evaluation's result, with one words entry per character of the reference text that
\* is neither whitespace nor punctuation (so a non-empty list when there is such a
\* character), and with one of the five fixed advice strings as scoreAdvice.
C18_SyntheticWordsPerCharacter ==
    (pipePhase = "done" /\ pipeIn.source = "synthetic") =>
        /\ pipeOut.result # Thrown
        /\ Len(pipeOut.azureResult.words) = FilteredCharCount(pipeIn.text)
        /\ pipeOut.result # Thrown =>
              /\ Len(pipeOut.result.words) = FilteredCharCount(pipeIn.text)
              /\ pipeOut.result.scoreAdvice \in
                     { "advice_near_native", "advice_very_good", "advice_good_base",
                       "advice_more_practice", "advice_start_from_basics" }

\* evaluation e ends in this step
Completes(e) == InFlight(e) /\ evals'[e].pc = "finished"

SameScores(session, result) ==
    /\ session.overallScore = result.overallScore
    /\ session.accuracyScore = result.accuracyScore
    /\ session.fluencyScore = result.fluencyScore
    /\ session.completenessScore = result.completenessScore
    /\ session.prosodyScore = result.prosodyScore
    /\ session.pauseCount = result.pauseCount
    /\ session.confidenceScore = result.confidenceScore

\* C19: a step in which an evaluation completes with a result for a signed-in user
\* appends exactly one session record, with the scores, pauseCount and confidence of
\* the result shown; a step in which an evaluation fails, and every other step, leaves
\* the session records as they are.
C19_OneSessionPerEvaluation ==
    [][ IF \E e \in 1..MaxEvals : Completes(e) /\ lastFinished'.outcome = "done" /\ user
        THEN /\ Len(sessions') = Len(sessions) + 1
             /\ SubSeq(sessions', 1, Len(sessions)) = sessions
             /\ SameScores(sessions'[Len(sessions')], appState'.evaluationResult)
        ELSE sessions' = sessions ]_vars

\* model m was skipped or has failed by position n of the log
SkippedOrFailedBy(m, n) ==
    \E k \in 1..n : gen.log[k].model = m /\ gen.log[k].event \in {"skipped", "failed"}

\* C20: generateAIText tries the seven models in list order: a model is requested only
\* after every earlier model was skipped or failed, nothing follows a success, the
\* replacement text is used only after all seven models were skipped (no key) or
\* failed, and a finished call leaves isGenerating false and generatedText non-empty.
C20_ModelsInOrderThenReplacement ==
    /\ \A n \in 1..Len(gen.log) :
          /\ gen.log[n].event = "requested" =>
                \A m \in 1..(gen.log[n].model - 1) : SkippedOrFailedBy(m, n - 1)
          /\ gen.log[n].event = "succeeded" => n = Len(gen.log)
    /\ (gen.pc = "idle" /\ gen.calls > 0) =>
          /\ ~gen.isGenerating
          /\ gen.generatedText # ""
          /\ gen.generatedText = "replacement" =>
                \/ ~gen.geminiApiKey /\ ~gen.openaiApiKey
                \/ \A m \in 1..Len(ModelTypes) : SkippedOrFailedBy(m, Len(gen.log))

\* the word boundaries the pause count counts: both words carry syllable timing and
\* the gap between them is over the threshold
CountedBoundaries(words) ==
    {i \in 1..(Len(words) - 1) :
        /\ CarriesSyllableTiming(words[i])
        /\ CarriesSyllableTiming(words[i + 1])
        /\ SyllableGap(words, i) > PauseThresholdMs * TicksPerMs}

\* C21: the three figures of the pause panel come from one set of inter-word gaps:
\* pauseCount is the size of that set; when it is 0, averagePauseDuration and
\* longestPause are 0; when it is positive, longestPause is the largest gap of the
\* set and averagePauseDuration is the mean of the gaps of the set.
C21_PauseFiguresFromOneGapSet ==
    pipePhase = "analysed" =>
        LET words == PipeAnalysedWords
            counted == CountedBoundaries(words)
            p == pipeOut.pauses
        IN  /\ p.pauseCount = Cardinality(counted)
            /\ (p.pauseCount = 0) =>
                   (p.averagePauseDuration = 0 /\ p.longestPause = 0)
            /\ (p.pauseCount > 0) =>
                   /\ \E i \in counted : p.longestPause = SyllableGap(words, i)
                   /\ \A i \in counted : SyllableGap(words, i) <= p.longestPause
                   /\ p.averagePauseDuration
                          = SetSum(words, counted) \div Cardinality(counted)

\* the error types other than None
RealErrorTypes == {"Mispronunciation", "Omission", "Insertion", "UnexpectedBreak"}

\* C22: every word of the synthetic generator whose score is over 80 has errorType
\* None, and every word whose score is at most 80 has one of the four error types
\* other than None.
C22_ErrorTypeFollowsWordScore ==
    (pipePhase = "done" /\ pipeIn.source = "synthetic") =>
        LET fallbackResult == generateCompleteFallbackEvaluation(pipeIn.text, pipeIn.draws)
            words == pipeOut.azureResult.words
        IN  \A j \in 1..Len(words) :
                LET wordScore == SyntheticWordScore(j, fallbackResult.accuracyScore,
                                                    pipeIn.draws)
                IN  /\ (wordScore > 80 * 1000) => (words[j].errorType = "None")
                    /\ (wordScore <= 80 * 1000) => (words[j].errorType \in RealErrorTypes)

\* the startRecording invocations whose stream has live tracks
LiveStreams == {r \in 1..MaxRecs : StreamLive(r)}

\* C23: at most one microphone stream is live at any time, whatever the interleaving
\* of toggleRecording with a pending getUserMedia, and a live stream is the one of the
\* recorder mediaRecorderRef holds, so that stopRecording stops it.
C23_OneStreamHeldByTheRecorder ==
    /\ Cardinality(LiveStreams) <= 1
    /\ \A r \in LiveStreams : practice.mediaRecorderRef = r

\* every saveShadowingSession call made so far has returned, and one was made
SavesCompleted ==
    /\ \A c \in 1..Len(ops) : ops[c].pc \in {"idle", "done"}
    /\ \E c \in 1..Len(ops) : ops[c].pc = "done" /\ ops[c].kind = "save"

\* C24: once every saveShadowingSession call of the user has completed, interleaved
\* or not, the profile's totalSessions is the number of session records appended,
\* totalPractices and totalStudyTime are the sums over those records, and bestScore
\* is at least the overallScore of every appended record.
C24_ProfileAgreesWithSessionLog ==
    (SavesCompleted /\ Len(sessions) > 0) =>
        /\ userProfile # Null
        /\ userProfile.totalSessions = Len(sessions)
        /\ userProfile.totalPractices
               = SeqSum([i \in 1..Len(sessions) |-> sessions[i].practiceCount])
        /\ userProfile.totalStudyTime
               = SeqSum([i \in 1..Len(sessions) |-> sessions[i].studyTime])
        /\ \A i \in 1..Len(sessions) : userProfile.bestScore >= sessions[i].overallScore

\* C25: every started evaluation eventually finishes when callbacks are delivered:
\* handleEvaluate returns, having set a result or the failure state.
C25_EveryEvaluationFinishes ==
    \A e \in 1..MaxEvals : (evals[e].pc = "azure") ~> (evals[e].pc = "finished")

\* C26: when the evaluation that finished last ended in the outer catch, the
\* evaluation step shows the failure state: no result of an earlier attempt is left
\* in evaluationResult and displayed.
C26_FailureShowsNoEarlierResult ==
    ( /\ appState.currentStep = "evaluation"
      /\ ~appState.isEvaluating
      /\ lastFinished.outcome = "failed" )
        => appState.evaluationResult = Null

\* the ids an instance holds in its favorites list
HeldIds(h) == {hooks[h].favorites[i].id : i \in 1..Len(hooks[h].favorites)}

\* both instances loaded the collection, no call is pending, and the last call of
\* one of them was an addFavorite or removeFavorite that succeeded
AfterSuccessfulChange ==
    /\ \A h \in Instances : hooks[h].loaded /\ hooks[h].call = Null
    /\ \E h \in Instances : hooks[h].returned = [success |-> TRUE]

\* C27: after a successful addFavorite or removeFavorite through one useFavorites
\* instance, every mounted instance holds exactly the ids of the stored favorites,
\* isFavorite(text) of the App's instance is true exactly when a stored favorite has
\* that trimmed text, and no trimmed text is stored as two favorites.
C27_InstancesAgreeWithStore ==
    AfterSuccessfulChange =>
        /\ \A h \in Instances : HeldIds(h) = StoredIds
        /\ \A text \in FavoriteTexts :
               isFavorite("App", text)
                   <=> \E id \in StoredIds : Trim(favoriteDocs[id].text) = Trim(text)
        /\ \A i, j \in StoredIds :
               Trim(favoriteDocs[i].text) = Trim(favoriteDocs[j].text) => i = j

\* the elements of a list
Elements(list) == {list[i] : i \in 1..Len(list)}

\* a source output that carries its own strongPoints, improvementAreas and scoreAdvice
CarriesAnalysis(azureResult) ==
    /\ "strongPoints" \in DOMAIN azureResult
    /\ "improvementAreas" \in DOMAIN azureResult
    /\ "scoreAdvice" \in DOMAIN azureResult

NoDuplicates(list) == \A i, j \in 1..Len(list) : list[i] = list[j] => i = j

\* the entries of a list other than text, in order
OtherEntries(list, text) == SelectSeq(list, LAMBDA t : t # text)

\* call c returns in this step after its updateDoc succeeded
ToggleWrites(c) == ToggleUpdateSettles(c, TRUE)

\* call c returns in this step
ToggleReturns(c) == ops[c].kind # "save" /\ ops[c].pc # "done" /\ ops'[c].pc = "done"

EvaluateStep ==
    /\ appState.currentStep = "shadowing"
    /\ practice.audioBlob # Null
    /\ \E e \in 1..MaxEvals :
          /\ evals[e].pc = "idle"
          /\ evals'[e].pc = "azure"
          /\ evals'[e].audioBlob = practice.audioBlob

\* C30: at the steps 'shadowing' and 'evaluation' selectedText is never blank, and
\* the step 'evaluation' is entered only from 'shadowing', by handleEvaluate with a
\* recorded audio blob, whatever the sequence of start, back, home, dashboard,
\* practice, favorites, retry and evaluate actions.
C30_PracticeHasTextAndEvaluationHasAudio ==
    /\ [](appState.currentStep \in {"shadowing", "evaluation"}
            => Trim(appState.selectedText) # EmptyText)
    /\ [][ (appState'.currentStep = "evaluation" /\ appState.currentStep # "evaluation")
             => EvaluateStep ]_vars

\* C30 witness: a second evaluation has been started, after the first one finished
\* and the practice step was entered again.
C30_Witness ==
    /\ appState.currentStep = "evaluation"
    /\ appState.isEvaluating
    /\ evals[1].pc = "finished"
    /\ evals[2].pc = "azure"
    /\ evals[2].audioBlob # Null
    /\ Trim(appState.selectedText) # EmptyText

====
